---- MODULE Spec2Model ----
(***************************************************************************)
(* Model of autodocs/autodocs.py: AutoDocs.generate_readme (the            *)
(* privilege-aware document assembler) and AutoDocs.makedocs (the          *)
(* packager that ships the per-tier documents).                            *)
(*                                                                         *)
(* Python str values are TLA+ strings (TLC evaluates \o, Len and SubSeq on *)
(* them).  Optional[str] is None or Some(s).                               *)
(***************************************************************************)
EXTENDS Integers, Sequences, FiniteSets, TLC

(* ------------------------------ bounds --------------------------------- *)

\* commands yielded by cog.walk_app_commands() and cog.walk_commands()
\* together in one assembly
MaxWalk == 2
\* cogs loaded in the bot during one makedocs invocation
MaxCogs == 2
\* callbacks the event loop runs while one makedocs invocation is suspended
MaxCallbacks == 2

(* ----------------------- PrivilegeLevel (IntEnum) ---------------------- *)

NONE == 1
MOD == 2
ADMIN == 3
GUILD_OWNER == 4
BOT_OWNER == 5

PrivilegeLevel == {NONE, MOD, ADMIN, GUILD_OWNER, BOT_OWNER}

\* docs_by_level is a dict literal: iteration follows insertion order
LevelOrder == <<NONE, MOD, ADMIN, GUILD_OWNER, BOT_OWNER>>

LevelStrings == {"none", "mod", "admin", "guildowner", "botowner"}

privilege_map ==
    [s \in LevelStrings |->
        CASE s = "none" -> NONE
          [] s = "mod" -> MOD
          [] s = "admin" -> ADMIN
          [] s = "guildowner" -> GUILD_OWNER
          [] s = "botowner" -> BOT_OWNER]

\* PrivilegeLevel(level).name
EnumName(level) ==
    CASE level = NONE -> "NONE"
      [] level = MOD -> "MOD"
      [] level = ADMIN -> "ADMIN"
      [] level = GUILD_OWNER -> "GUILD_OWNER"
      [] level = BOT_OWNER -> "BOT_OWNER"

(* --------------------------- Optional[str] ----------------------------- *)

None == [none |-> TRUE]
Some(s) == [none |-> FALSE, val |-> s]
IsNone(d) == d.none
\* Python truthiness of an Optional[str]: None and "" are falsy
Truthy(d) == ~d.none /\ d.val # ""

(* ----------------------------- str helpers ----------------------------- *)

\* s[i] as a one-character string
CharAt(s, i) == SubSeq(s, i, i)

\* s.startswith(p)
StartsWith(s, p) == Len(p) <= Len(s) /\ SubSeq(s, 1, Len(p)) = p

\* p in s
Contains(s, p) ==
    \E i \in 1..(Len(s) - Len(p) + 1) : SubSeq(s, i, i + Len(p) - 1) = p

\* c * n
RECURSIVE Repeat(_, _)
Repeat(c, n) == IF n <= 0 THEN "" ELSE c \o Repeat(c, n - 1)

\* The characters str.isspace() holds of, among those a string of this
\* module can hold (code points up to 255): tab, line feed, vertical tab,
\* form feed, carriage return, the separators 28-31, space, next line (133)
\* and no-break space (160).
Whitespace ==
    {" ", "\n", "\t", "\r", "\f", "", "", "", "", "", "", " "}

\* s.lstrip(), s.rstrip(), s.strip()
RECURSIVE LStrip(_)
LStrip(s) ==
    IF Len(s) > 0 /\ CharAt(s, 1) \in Whitespace
    THEN LStrip(SubSeq(s, 2, Len(s)))
    ELSE s

RECURSIVE RStrip(_)
RStrip(s) ==
    IF Len(s) > 0 /\ CharAt(s, Len(s)) \in Whitespace
    THEN RStrip(SubSeq(s, 1, Len(s) - 1))
    ELSE s

Strip(s) == RStrip(LStrip(s))

\* s.lower(), over the characters enum names are made of
LowerChar(c) ==
    CASE c = "A" -> "a" [] c = "B" -> "b" [] c = "D" -> "d" [] c = "E" -> "e"
      [] c = "G" -> "g" [] c = "I" -> "i" [] c = "L" -> "l" [] c = "M" -> "m"
      [] c = "N" -> "n" [] c = "O" -> "o" [] c = "R" -> "r" [] c = "T" -> "t"
      [] c = "U" -> "u" [] c = "W" -> "w" [] OTHER -> c

RECURSIVE Lower(_)
Lower(s) ==
    IF s = "" THEN "" ELSE LowerChar(CharAt(s, 1)) \o Lower(SubSeq(s, 2, Len(s)))

\* s.replace(old, new), old non-empty: leftmost non-overlapping occurrences
RECURSIVE Replace(_, _, _)
Replace(s, old, new) ==
    IF Len(s) < Len(old) THEN s
    ELSE IF SubSeq(s, 1, Len(old)) = old
         THEN new \o Replace(SubSeq(s, Len(old) + 1, Len(s)), old, new)
         ELSE CharAt(s, 1) \o Replace(SubSeq(s, 2, Len(s)), old, new)

(* ------------------- command descriptors and CustomCmdFmt --------------- *)

\* A command as the framework's walk yields it, with what the formatter
\* reports for it: perms is Optional[{privilege_level: Optional[level]}],
\* doc is the Optional[str] that get_doc() returns.  A walk yields every
\* command of the cog once, so qualified names are distinct within a walk;
\* a hybrid command is in both walks.
QualifiedNames == {"p", "p q"}

PermsSpace ==
    {None, Some([privilege_level |-> None])}
        \cup {Some([privilege_level |-> Some(l)]) : l \in PrivilegeLevel}

DocSpace == {None, Some(""), Some("D")}

CommandSpace ==
    [qualified_name : QualifiedNames, hidden : BOOLEAN,
     perms : PermsSpace, doc : DocSpace]

\* CustomCmdFmt(bot, cmd, ...): the attributes generate_readme reads
CustomCmdFmt(cmd) ==
    [name |-> cmd.qualified_name, perms |-> cmd.perms, doc |-> cmd.doc]

\* c.get_doc()
get_doc(c) == c.doc

determine_command_privilege_level(c) ==
    IF ~IsNone(c.perms) /\ ~IsNone(c.perms.val.privilege_level)
    THEN c.perms.val.privilege_level.val
    ELSE NONE

(* ---------------------------- generate_readme --------------------------- *)

\* f"{cog_name}\n{'=' * len(cog_name)}\n\n{cog_help}\n\n"
CogHeader(cog_name, cog_help) ==
    cog_name \o "\n" \o Repeat("=", Len(cog_name)) \o "\n\n" \o cog_help \o "\n\n"

\* cog.help.strip() if cog.help else ""
CogHelp(help) == IF Truthy(help) THEN Strip(help.val) ELSE ""

EmptyDocs == [l \in PrivilegeLevel |-> ""]

\* InitDocs with the include_help test forgotten
InitDocsAlways(cog_name, help, include_help) ==
    LET cog_help == CogHelp(help)
    IN  IF cog_help # ""
        THEN [l \in PrivilegeLevel |-> EmptyDocs[l] \o CogHeader(cog_name, cog_help)]
        ELSE EmptyDocs

\* docs_by_level after the header loop
InitDocs(cog_name, help, include_help) ==
    LET cog_help == CogHelp(help)
    IN  IF cog_help # "" /\ include_help
        THEN [l \in PrivilegeLevel |-> EmptyDocs[l] \o CogHeader(cog_name, cog_help)]
        ELSE EmptyDocs

\* OutsideBand with the lower test forgotten
OutsideBandMaxOnly(command_level, o) ==
    command_level > privilege_map[o.max_privilege_level]

\* command_level < min_level or command_level > max_level
OutsideBand(command_level, o) ==
    \/ command_level < privilege_map[o.min_privilage_level]
    \/ command_level > privilege_map[o.max_privilege_level]

\* f"{c.name} command for {cog_name} cog"
CsvName(c, cog_name) == c.name \o " command for " \o cog_name \o " cog"

\* the three statements that close the app-command loop body
AppEmit(st, c, command_level, cog_name) ==
    LET doc == get_doc(c).val
        csv_name == CsvName(c, cog_name)
    IN  [st EXCEPT
            !.docs_by_level[command_level] = @ \o doc \o "\n\n",
            !.rows = Append(@, <<csv_name, csv_name \o "\n" \o doc>>),
            !.outcome = "emitted"]

\* CmdEmit with the append to the tier's blob forgotten
CmdEmitRowOnly(st, c, command_level, cog_name) ==
    LET doc == get_doc(c).val
        csv_name == CsvName(c, cog_name)
    IN  [st EXCEPT
            !.rows = Append(@, <<csv_name, csv_name \o "\n" \o doc>>),
            !.outcome = "emitted"]

\* the three statements that close the regular-command loop body
CmdEmit(st, c, command_level, cog_name) ==
    LET doc == get_doc(c).val
        csv_name == CsvName(c, cog_name)
    IN  [st EXCEPT
            !.docs_by_level[command_level] = @ \o doc \o "\n\n",
            !.rows = Append(@, <<csv_name, csv_name \o "\n" \o doc>>),
            !.outcome = "emitted"]

\* One iteration of `for cmd in cog.walk_app_commands()`.  st holds the
\* locals docs_by_level, rows, ignored; outcome names the exit taken.
AppCmdBody(st, cmd, cog_name, o) ==
    LET c == CustomCmdFmt(cmd)
        command_level == determine_command_privilege_level(c)
    IN  IF OutsideBand(command_level, o)
        THEN [st EXCEPT !.outcome = "band"]
        ELSE IF ~Truthy(get_doc(c))
        THEN [st EXCEPT !.outcome = IF IsNone(get_doc(c)) THEN "null" ELSE "empty"]
        ELSE AppEmit(st, c, command_level, cog_name)

\* for i in ignored: if i in cmd.qualified_name: skip = True
Skip(ignored, qualified_name) ==
    \E k \in 1..Len(ignored) : Contains(qualified_name, ignored[k])

\* One iteration of `for cmd in cog.walk_commands()`.
CmdBody(st, cmd, cog_name, o) ==
    LET c == CustomCmdFmt(cmd)
        command_level == determine_command_privilege_level(c)
    IN  IF cmd.hidden /\ ~o.include_hidden
        THEN [st EXCEPT !.outcome = "hidden"]
        ELSE IF OutsideBand(command_level, o)
        THEN [st EXCEPT !.outcome = "band"]
        ELSE IF IsNone(get_doc(c))
        THEN [st EXCEPT !.ignored = Append(@, cmd.qualified_name),
                        !.outcome = "null"]
        ELSE IF ~Truthy(get_doc(c))
        THEN [st EXCEPT !.outcome = "empty"]
        ELSE IF Skip(st.ignored, cmd.qualified_name)
        THEN [st EXCEPT !.outcome = "ignored"]
        ELSE CmdEmit(st, c, command_level, cog_name)

RECURSIVE AppLoop(_, _, _, _)
AppLoop(st, cmds, cog_name, o) ==
    IF cmds = <<>> THEN st
    ELSE AppLoop(AppCmdBody(st, Head(cmds), cog_name, o), Tail(cmds), cog_name, o)

RECURSIVE CmdLoop(_, _, _, _)
CmdLoop(st, cmds, cog_name, o) ==
    IF cmds = <<>> THEN st
    ELSE CmdLoop(CmdBody(st, Head(cmds), cog_name, o), Tail(cmds), cog_name, o)

\* max_level = privilege_map[max_privilege_level] or
\* min_level = privilege_map[min_privilage_level] raises KeyError
KeyErrors(o) ==
    \/ o.max_privilege_level \notin DOMAIN privilege_map
    \/ o.min_privilage_level \notin DOMAIN privilege_map

\* generate_readme(cog, ...) as a function of the cog and the options:
\* the locals at `return docs_by_level, df`, or outcome "KeyError" when a
\* level string is no key of privilege_map
generate_readme(cog, o) ==
    IF KeyErrors(o)
    THEN [docs_by_level |-> EmptyDocs, rows |-> <<>>, ignored |-> <<>>,
          outcome |-> "KeyError"]
    ELSE LET st0 == [docs_by_level |->
                        InitDocs(cog.qualified_name, cog.help, o.include_help),
                     rows |-> <<>>, ignored |-> <<>>, outcome |-> "start"]
             st1 == AppLoop(st0, cog.app_commands, cog.qualified_name, o)
         IN  CmdLoop(st1, cog.commands, cog.qualified_name, o)

(* ------------------------------ state ----------------------------------- *)

VARIABLES
    pc,             \* position in generate_readme / makedocs
    opts,           \* the call's arguments
    docs_by_level,  \* generate_readme local: PrivilegeLevel -> str
    rows,           \* generate_readme local: list of [csv_name, text]
    ignored,        \* generate_readme local: qualified names with a None doc
    walked,         \* commands consumed from the two walks so far
    walkNames,      \* qualified names the current walk has yielded
    emitted,        \* history: per row, the command and tier that produced it
    nullSkipped,    \* history: qualified names skipped on a null render
    bot_cogs,       \* self.bot.cogs: the dict's entries, None where one was popped
    dk_usable,      \* self.bot.cogs: entries the dict's key table can still take
    callbacks,      \* history: callbacks run while makedocs was suspended
    arc,            \* makedocs: entries written to the ZipFile
    sent,           \* makedocs: the ctx.send(...) calls made so far
    cog,            \* makedocs local: the cog get_cog returned last
    cog_i,          \* makedocs: the entry `for cog in self.bot.cogs` looks at next
    iter_size,      \* makedocs: len(self.bot.cogs) when the iteration began
    iter_len,       \* makedocs: keys the iteration has still to yield
    level_i,        \* makedocs: position of `for level, docs in docs_by_level.items()`
    filename,       \* makedocs local (all mode)
    file,           \* makedocs local: the discord.File built last
    calls,          \* history: number of generate_readme calls
    last            \* history: the exit the last loop iteration took, and its command's tier

\* generate_readme's locals and history
gvars == <<docs_by_level, rows, ignored, walked, walkNames, emitted, nullSkipped, last>>
\* makedocs' locals and history
\* the dict behind self.bot.cogs
dvars == <<bot_cogs, dk_usable, callbacks>>
\* the iterator of `for cog in self.bot.cogs`
ivars == <<cog_i, iter_size, iter_len>>
mvars == <<dvars, arc, sent, cog, ivars, level_i, filename, file, calls>>
vars == <<pc, opts, gvars, mvars>>

(* --------------- generate_readme, one loop iteration per step ----------- *)

CogNames == {"A"}
HelpSpace == {None, Some(" H\n")}

\* min_privilage_level: str = "user" is the parameter's default
MinLevelArgs == LevelStrings \cup {"user"}

\* include_help only matters when the cog has help text
ReadmeOpts ==
    {o \in [cog_name : CogNames, help : HelpSpace,
            include_hidden : BOOLEAN, include_help : BOOLEAN,
            max_privilege_level : LevelStrings, min_privilage_level : MinLevelArgs] :
        IsNone(o.help) => o.include_help}

NoLast == [outcome |-> "start", level |-> NONE]

ReadmeInit ==
    /\ pc = "entry"
    /\ opts \in ReadmeOpts
    /\ docs_by_level = EmptyDocs
    /\ rows = <<>>
    /\ ignored = <<>>
    /\ walked = 0
    /\ walkNames = {}
    /\ emitted = <<>>
    /\ nullSkipped = {}
    /\ bot_cogs = <<>>
    /\ dk_usable = 0
    /\ callbacks = 0
    /\ arc = <<>>
    /\ sent = <<>>
    /\ cog = None
    /\ cog_i = 1
    /\ iter_size = 0
    /\ iter_len = 0
    /\ level_i = 1
    /\ filename = None
    /\ file = None
    /\ calls = 0
    /\ last = NoLast

Locals == [docs_by_level |-> docs_by_level, rows |-> rows,
           ignored |-> ignored, outcome |-> "start"]

\* privilege_map[...] raises KeyError
ReadmeKeyError ==
    /\ pc = "entry"
    /\ KeyErrors(opts)
    /\ pc' = "KeyError"
    /\ UNCHANGED <<opts, gvars, mvars>>

\* max_level, min_level and the five empty blobs are bound
ReadmeLevels ==
    /\ pc = "entry"
    /\ ~KeyErrors(opts)
    /\ docs_by_level' = EmptyDocs
    /\ pc' = "header"
    /\ UNCHANGED <<opts, rows, ignored, walked, walkNames, emitted, nullSkipped, mvars, last>>

\* the header loop over docs_by_level
ReadmeHeader ==
    /\ pc = "header"
    /\ docs_by_level' = InitDocs(opts.cog_name, opts.help, opts.include_help)
    /\ pc' = "app"
    /\ UNCHANGED <<opts, rows, ignored, walked, walkNames, emitted, nullSkipped, mvars, last>>

Record(pass, cmd, r) ==
    /\ last' = [outcome |-> r.outcome,
                level |-> determine_command_privilege_level(CustomCmdFmt(cmd))]
    /\ emitted' = IF r.outcome = "emitted"
                  THEN Append(emitted,
                         [qualified_name |-> cmd.qualified_name,
                          level |-> determine_command_privilege_level(CustomCmdFmt(cmd))])
                  ELSE emitted
    /\ nullSkipped' = IF r.outcome = "null"
                      THEN nullSkipped \cup {cmd.qualified_name}
                      ELSE nullSkipped

ReadmeAppCmd ==
    /\ pc = "app"
    /\ walked < MaxWalk
    /\ \E cmd \in CommandSpace :
         LET r == AppCmdBody(Locals, cmd, opts.cog_name, opts)
         IN  /\ cmd.qualified_name \notin walkNames
             /\ walkNames' = walkNames \cup {cmd.qualified_name}
             /\ docs_by_level' = r.docs_by_level
             /\ rows' = r.rows
             /\ ignored' = r.ignored
             /\ Record("app", cmd, r)
    /\ walked' = walked + 1
    /\ UNCHANGED <<pc, opts, mvars>>

\* walk_app_commands() is exhausted; ignored = []
ReadmeAppDone ==
    /\ pc = "app"
    /\ pc' = "cmds"
    /\ ignored' = <<>>
    /\ walkNames' = {}
    /\ UNCHANGED <<opts, docs_by_level, rows, walked, emitted, nullSkipped, mvars, last>>

ReadmeCmd ==
    /\ pc = "cmds"
    /\ walked < MaxWalk
    /\ \E cmd \in CommandSpace :
         LET r == CmdBody(Locals, cmd, opts.cog_name, opts)
         IN  /\ cmd.qualified_name \notin walkNames
             /\ walkNames' = walkNames \cup {cmd.qualified_name}
             /\ docs_by_level' = r.docs_by_level
             /\ rows' = r.rows
             /\ ignored' = r.ignored
             /\ Record("cmds", cmd, r)
    /\ walked' = walked + 1
    /\ UNCHANGED <<pc, opts, mvars>>

\* walk_commands() is exhausted; return docs_by_level, df
ReadmeReturn ==
    /\ pc = "cmds"
    /\ pc' = "returned"
    /\ UNCHANGED <<opts, gvars, mvars>>

ReadmeNext ==
    \/ ReadmeKeyError
    \/ ReadmeLevels
    \/ ReadmeHeader
    \/ ReadmeAppCmd
    \/ ReadmeAppDone
    \/ ReadmeCmd
    \/ ReadmeReturn

SpecReadme == ReadmeInit /\ [][ReadmeNext]_vars

(* -------------------------------- makedocs ------------------------------ *)

\* from .formatter import IGNORE: the core cogs "all" leaves out
IGNORE == {"Core"}

\* _("StarCogs") under the default locale
folder_name == "StarCogs"

\* level_name = PrivilegeLevel(level).name.lower()
LevelName(level) == Lower(EnumName(level))

\* all mode: f"{folder_name}/{level_name}/cog_{cog.qualified_name}.rst"
ArcFilename(level, c) ==
    folder_name \o "/" \o LevelName(level) \o "/cog_" \o c.qualified_name \o ".rst"

\* single mode: buffer.name = f"{level_name}/cog_{cog.qualified_name}.rst"
BufferName(level, c) ==
    LevelName(level) \o "/cog_" \o c.qualified_name \o ".rst"

\* _("Here are your docs for {} in the {} level!").format(...)
DocsTxt(c, level) ==
    "Here are your docs for " \o c.qualified_name \o " in the "
        \o LevelName(level) \o " level!"

NotFoundTxt == "I could not find that cog, maybe it is not loaded?"
TooLargeTxt == "File size too large!"

\* discord.File(buffer) over BytesIO(docs.encode()): the text is ASCII here,
\* so the buffer holds one byte per character
File(name, data) == [filename |-> name, data |-> data]

\* the characters above 127 a string of this module can hold; str.encode()
\* makes two bytes of each, and one of every other
NonAscii ==
    {"", "", "", "", "", "", "", "", "", "", "", "", "",
     "", "", "", "", "", "", "", "", "", "", "", "", "",
     "", "", "", "", "", "", " ", "¡", "¢", "£", "¤", "¥", "¦",
     "§", "¨", "©", "ª", "«", "¬", "­", "®", "¯", "°", "±", "²", "³",
     "´", "µ", "¶", "·", "¸", "¹", "º", "»", "¼", "½", "¾", "¿", "À",
     "Á", "Â", "Ã", "Ä", "Å", "Æ", "Ç", "È", "É", "Ê", "Ë", "Ì", "Í",
     "Î", "Ï", "Ð", "Ñ", "Ò", "Ó", "Ô", "Õ", "Ö", "×", "Ø", "Ù", "Ú",
     "Û", "Ü", "Ý", "Þ", "ß", "à", "á", "â", "ã", "ä", "å", "æ", "ç",
     "è", "é", "ê", "ë", "ì", "í", "î", "ï", "ð", "ñ", "ò", "ó", "ô",
     "õ", "ö", "÷", "ø", "ù", "ú", "û", "ü", "ý", "þ", "ÿ"}

\* len(docs.encode())
Utf8Len(s) == Len(s) + Cardinality({i \in 1..Len(s) : CharAt(s, i) \in NonAscii})

\* the number of bytes a delivered file carries
ArtifactSize(f) == Utf8Len(f.data)

\* file.__sizeof__(): object.__sizeof__ of a discord.File, whose seven
\* __slots__ make 16 + 7 * 8 bytes on CPython whatever the buffer holds
FileObjectSize == 72
FileSizeof(f) == FileObjectSize

\* file.__sizeof__() > ctx.guild.filesize_limit
TooLarge(f, o) == FileSizeof(f) > o.filesize_limit

(* self.bot.cogs is a dict (CPython 3.11): an array of entries in insertion
   order, where pop leaves a dummy, and a key table that takes dk_usable
   more entries before an insertion rebuilds the array without dummies. *)
PyDict_MINSIZE == 8
USABLE_FRACTION(n) == (2 * n) \div 3

RECURSIVE bit_length(_)
bit_length(n) == IF n = 0 THEN 0 ELSE 1 + bit_length(n \div 2)

\* the table size an insertion resizes to: 1 << bit_length((minsize | 8) - 1)
calculate_keysize(minsize) ==
    LET ored == IF (minsize \div PyDict_MINSIZE) % 2 = 1
                THEN minsize ELSE minsize + PyDict_MINSIZE
    IN  2 ^ bit_length(ored - 1)

IsLive(e) == ~IsNone(e)

\* the entries that hold a cog, in order
DictLive(d) == SelectSeq(d, IsLive)

\* len(d)
DictUsed(d) == Len(DictLive(d))

\* the names loaded
DictKeys(d) == {d[i].val.qualified_name : i \in {j \in 1..Len(d) : IsLive(d[j])}}

\* d[c.qualified_name] = c for a new key
DictInsert(d, usable, c) ==
    IF usable > 0
    THEN [entries |-> Append(d, Some(c)), usable |-> usable - 1]
    ELSE LET live == DictLive(d)
             size == calculate_keysize(3 * Len(live))
         IN  [entries |-> Append(live, Some(c)),
              usable |-> USABLE_FRACTION(size) - Len(live) - 1]

\* d.pop(name, None)
DictPop(d, name) ==
    [i \in 1..Len(d) |->
        IF IsLive(d[i]) /\ d[i].val.qualified_name = name THEN None ELSE d[i]]

\* the first live entry at or after pos, 0 when there is none
NextEntry(d, pos) ==
    IF \E j \in pos..Len(d) : IsLive(d[j])
    THEN CHOOSE j \in pos..Len(d) :
            IsLive(d[j]) /\ \A k \in pos..(j - 1) : ~IsLive(d[k])
    ELSE 0

\* self.bot.get_cog(name)
get_cog(cogs, name) ==
    IF name \in DictKeys(cogs)
    THEN cogs[CHOOSE i \in 1..Len(cogs) :
                IsLive(cogs[i]) /\ cogs[i].val.qualified_name = name]
    ELSE None

\* CogMissing with the test forgotten
CogMissingNever(c) == FALSE

\* `if not cog`
CogMissing(c) == IsNone(c)

\* one csv field under QUOTE_MINIMAL with the line terminator "\n": quoted
\* when it holds the delimiter, the quote character or a line terminator
\* character
CsvField(f) ==
    IF Contains(f, ",") \/ Contains(f, "\"") \/ Contains(f, "\n")
    THEN "\"" \o Replace(f, "\"", "\"\"") \o "\""
    ELSE f

RECURSIVE CsvRows(_)
CsvRows(rs) ==
    IF rs = <<>> THEN ""
    ELSE CsvField(Head(rs)[1]) \o "," \o CsvField(Head(rs)[2]) \o "\n"
            \o CsvRows(Tail(rs))

\* df.to_csv(tmp, index=False) with columns [_("name"), _("text")]
ToCsv(rs) == "name,text\n" \o CsvRows(rs)

(* ------------------------- the loaded cogs ----------------------------- *)

Cmd(qualified_name, hidden, perms, doc) ==
    [qualified_name |-> qualified_name, hidden |-> hidden, perms |-> perms, doc |-> doc]

Level(l) == Some([privilege_level |-> Some(l)])

\* a rendered doc of 120 characters
LongDoc == Repeat("0123456789", 12)

Registry(name) ==
    CASE name = "Core" ->
           [qualified_name |-> "Core", help |-> Some("core"),
            app_commands |-> <<>>,
            commands |-> <<Cmd("c", FALSE, Level(BOT_OWNER), Some("C"))>>]
      [] name = "AutoDocs" ->
           [qualified_name |-> "AutoDocs",
            help |-> Some("Document your cogs with ease!"),
            app_commands |-> <<Cmd("makedocs", FALSE, Level(BOT_OWNER), Some("M"))>>,
            commands |-> <<Cmd("makedocs", FALSE, Level(BOT_OWNER), Some("M"))>>]
      [] name = "A" ->
           [qualified_name |-> "A", help |-> Some(" H\n"),
            app_commands |-> <<Cmd("s", FALSE, None, Some("é"))>>,
            commands |-> <<Cmd("p", FALSE, Level(MOD), Some("D")),
                           Cmd("p q", TRUE, Level(ADMIN), Some("E")),
                           Cmd("r", FALSE, Level(BOT_OWNER), None),
                           Cmd("r x", FALSE, Level(BOT_OWNER), Some("F"))>>]
      [] name = "B" ->
           [qualified_name |-> "B", help |-> None,
            app_commands |-> <<>>,
            commands |-> <<Cmd("big", FALSE, None, Some(LongDoc))>>]

LoadableCogs == {"Core", "AutoDocs", "A", "B"}

\* the order the cogs were loaded in
LoadOrder == <<"Core", "AutoDocs", "A", "B">>

\* the loaded cogs in load order; makedocs is a command of the AutoDocs
\* cog, which is therefore loaded when makedocs is called
CogLists ==
    {LET Loaded(n) == n \in S IN SelectSeq(LoadOrder, Loaded) :
        S \in {T \in SUBSET LoadableCogs :
                 "AutoDocs" \in T /\ Cardinality(T) <= MaxCogs}}

\* ctx.guild.filesize_limit.  Production limits are megabytes; sizes are
\* scaled down here: one limit below the size of a File object, one above
\* it and below the size of the artifact that LongDoc makes.
FilesizeLimits == {64, 100}

\* the cog names asked for
RequestedNames == {"all", "A", "B"}

\* <<min_privilage_level, max_privilege_level>>: the defaults, one tier,
\* an inner band and an empty band
MakedocsBands ==
    {<<"none", "botowner">>, <<"none", "none">>, <<"mod", "admin">>, <<"admin", "mod">>}

MakedocsOpts ==
    {[cog_name |-> n, include_hidden |-> h, include_help |-> ih,
      max_privilege_level |-> b[2], min_privilage_level |-> b[1],
      csv_export |-> c, filesize_limit |-> l] :
        n \in RequestedNames, h \in BOOLEAN, ih \in BOOLEAN,
        b \in MakedocsBands, c \in BOOLEAN, l \in FilesizeLimits}

\* the dict of n cogs as makedocs finds it: built by n insertions, or with
\* the dummies of earlier unloads filling its table
DictDummies(n) == {0, USABLE_FRACTION(PyDict_MINSIZE) - n}

Init ==
    /\ pc = "start"
    /\ opts \in MakedocsOpts
    /\ \E cs \in CogLists : \E k \in DictDummies(Len(cs)) :
         /\ bot_cogs = [i \in 1..k |-> None]
                          \o [i \in 1..Len(cs) |-> Some(Registry(cs[i]))]
         /\ dk_usable = USABLE_FRACTION(PyDict_MINSIZE) - Len(cs) - k
    /\ callbacks = 0
    /\ docs_by_level = EmptyDocs
    /\ rows = <<>>
    /\ ignored = <<>>
    /\ walked = 0
    /\ walkNames = {}
    /\ emitted = <<>>
    /\ nullSkipped = {}
    /\ arc = <<>>
    /\ sent = <<>>
    /\ cog = None
    /\ cog_i = 1
    /\ iter_size = 0
    /\ iter_len = 0
    /\ level_i = 1
    /\ filename = None
    /\ file = None
    /\ calls = 0
    /\ last = NoLast

\* the locals generate_readme leaves alone in this specification
gidle == <<ignored, walked, walkNames, emitted, nullSkipped, last>>

\* makedocs is called and waits in lines 186-188 (locales, prefixes,
\* ctx.typing()) until it reaches the test of cog_name at pc = "start".
\* cog_name == "all": the archive is opened, the folder entry written and
\* the iteration over self.bot.cogs begun
AllOpen ==
    /\ pc = "start"
    /\ opts.cog_name = "all"
    /\ arc' = <<[name |-> folder_name \o "/", data |-> ""]>>
    /\ cog_i' = 1
    /\ iter_size' = DictUsed(bot_cogs)
    /\ iter_len' = DictUsed(bot_cogs)
    /\ pc' = "cogs"
    /\ UNCHANGED <<opts, docs_by_level, rows, gidle, dvars, sent, cog, level_i, filename, file, calls>>

\* the next step of `for cog in self.bot.cogs` finds len(self.bot.cogs)
\* changed: RuntimeError: dictionary changed size during iteration
AllIterFault ==
    /\ pc = "cogs"
    /\ DictUsed(bot_cogs) # iter_size
    /\ pc' = "fault"
    /\ UNCHANGED <<opts, gvars, mvars>>

\* the next step finds an entry after it has yielded as many keys as the
\* dict had: RuntimeError: dictionary keys changed during iteration
AllIterKeysFault ==
    /\ pc = "cogs"
    /\ DictUsed(bot_cogs) = iter_size
    /\ NextEntry(bot_cogs, cog_i) # 0
    /\ iter_len = 0
    /\ pc' = "fault"
    /\ UNCHANGED <<opts, gvars, mvars>>

\* the iteration yields the next key
IterYields ==
    /\ DictUsed(bot_cogs) = iter_size
    /\ NextEntry(bot_cogs, cog_i) # 0
    /\ iter_len > 0

\* cog = self.bot.get_cog(cog); if cog.qualified_name in IGNORE: continue
AllSkipIgnored ==
    /\ pc = "cogs"
    /\ IterYields
    /\ LET i == NextEntry(bot_cogs, cog_i)
       IN  /\ bot_cogs[i].val.qualified_name \in IGNORE
           /\ cog' = get_cog(bot_cogs, bot_cogs[i].val.qualified_name)
           /\ cog_i' = i + 1
    /\ iter_len' = iter_len - 1
    /\ UNCHANGED <<pc, opts, docs_by_level, rows, gidle, dvars, arc, sent, iter_size, level_i, filename, file, calls>>

\* cog = self.bot.get_cog(cog); partial_func is handed to the executor and
\* makedocs waits for it
AllSubmit ==
    /\ pc = "cogs"
    /\ IterYields
    /\ LET i == NextEntry(bot_cogs, cog_i)
       IN  /\ bot_cogs[i].val.qualified_name \notin IGNORE
           /\ cog' = get_cog(bot_cogs, bot_cogs[i].val.qualified_name)
           /\ cog_i' = i + 1
    /\ iter_len' = iter_len - 1
    /\ calls' = calls + 1
    /\ pc' = "all_await"
    /\ UNCHANGED <<opts, docs_by_level, rows, gidle, dvars, arc, sent, iter_size, level_i, filename, file>>

\* docs_by_level, df = <the worker's result>
AllResume ==
    /\ pc = "all_await"
    /\ LET r == generate_readme(cog.val, opts)
       IN  IF r.outcome = "KeyError"
           THEN /\ pc' = "fault"
                /\ UNCHANGED <<docs_by_level, rows>>
           ELSE /\ docs_by_level' = r.docs_by_level
                /\ rows' = r.rows
                /\ pc' = "write"
    /\ level_i' = 1
    /\ UNCHANGED <<opts, gidle, dvars, arc, sent, cog, ivars, filename, file, calls>>

\* arc.writestr(filename, docs, ...) for the next level
AllWrite ==
    /\ pc = "write"
    /\ level_i <= Len(LevelOrder)
    /\ LET level == LevelOrder[level_i]
           name == ArcFilename(level, cog.val)
       IN  /\ filename' = Some(name)
           /\ arc' = Append(arc, [name |-> name, data |-> docs_by_level[level]])
    /\ level_i' = level_i + 1
    /\ UNCHANGED <<pc, opts, docs_by_level, rows, gidle, dvars, sent, cog, ivars, file, calls>>

\* if csv_export: arc.writestr(filename.replace(".rst", ".csv"), ...)
AllCsv ==
    /\ pc = "write"
    /\ level_i > Len(LevelOrder)
    /\ opts.csv_export
    /\ arc' = Append(arc, [name |-> Replace(filename.val, ".rst", ".csv"),
                           data |-> ToCsv(rows)])
    /\ pc' = "cogs"
    /\ UNCHANGED <<opts, docs_by_level, rows, gidle, dvars, sent, cog, ivars, level_i, filename, file, calls>>

AllNoCsv ==
    /\ pc = "write"
    /\ level_i > Len(LevelOrder)
    /\ ~opts.csv_export
    /\ pc' = "cogs"
    /\ UNCHANGED <<opts, docs_by_level, rows, gidle, dvars, arc, sent, cog, ivars, level_i, filename, file, calls>>

\* the iteration finds no further entry and the archive is closed;
\* buffer.name, file and txt are bound, and the function returns
AllClose ==
    /\ pc = "cogs"
    /\ DictUsed(bot_cogs) = iter_size
    /\ NextEntry(bot_cogs, cog_i) = 0
    /\ file' = Some(File(folder_name \o ".zip", arc))
    /\ pc' = "done"
    /\ UNCHANGED <<opts, docs_by_level, rows, gidle, dvars, arc, sent, cog, ivars, level_i, filename, calls>>

\* cog = self.bot.get_cog(cog_name); if not cog: the not-found text is
\* handed to ctx.send and makedocs waits for the send
SingleNotFound ==
    /\ pc = "start"
    /\ opts.cog_name # "all"
    /\ CogMissing(get_cog(bot_cogs, opts.cog_name))
    /\ cog' = get_cog(bot_cogs, opts.cog_name)
    /\ sent' = Append(sent, [content |-> NotFoundTxt, file |-> None])
    /\ pc' = "notfound_await"
    /\ UNCHANGED <<opts, docs_by_level, rows, gidle, dvars, arc, ivars, level_i, filename, file, calls>>

\* return <the result of the send>
SingleNotFoundReturn ==
    /\ pc = "notfound_await"
    /\ pc' = "done"
    /\ UNCHANGED <<opts, gvars, mvars>>

\* cog = self.bot.get_cog(cog_name); partial_func is handed to the executor
\* and makedocs waits for it
SingleSubmit ==
    /\ pc = "start"
    /\ opts.cog_name # "all"
    /\ ~CogMissing(get_cog(bot_cogs, opts.cog_name))
    /\ cog' = get_cog(bot_cogs, opts.cog_name)
    /\ calls' = calls + 1
    /\ pc' = "single_await"
    /\ UNCHANGED <<opts, docs_by_level, rows, gidle, dvars, arc, sent, ivars, level_i, filename, file>>

\* docs_by_level, df = <the worker's result>; generate_readme reads
\* cog.qualified_name first, an AttributeError on None
SingleResume ==
    /\ pc = "single_await"
    /\ IF IsNone(cog)
       THEN /\ pc' = "fault"
            /\ UNCHANGED <<docs_by_level, rows>>
       ELSE LET r == generate_readme(cog.val, opts)
            IN  IF r.outcome = "KeyError"
                THEN /\ pc' = "fault"
                     /\ UNCHANGED <<docs_by_level, rows>>
                ELSE /\ docs_by_level' = r.docs_by_level
                     /\ rows' = r.rows
                     /\ pc' = "send"
    /\ level_i' = 1
    /\ UNCHANGED <<opts, gidle, dvars, arc, sent, cog, ivars, filename, file, calls>>

\* the file of the next level, as the loop body builds it
LevelFile ==
    File(BufferName(LevelOrder[level_i], cog.val), docs_by_level[LevelOrder[level_i]])

\* await ctx.send("File size too large!")
SingleTooLarge ==
    /\ pc = "send"
    /\ level_i <= Len(LevelOrder)
    /\ TooLarge(LevelFile, opts)
    /\ file' = Some(LevelFile)
    /\ sent' = Append(sent, [content |-> TooLargeTxt, file |-> None])
    /\ level_i' = level_i + 1
    /\ UNCHANGED <<pc, opts, docs_by_level, rows, gidle, dvars, arc, cog, ivars, filename, calls>>

\* await ctx.send(txt, file=file)
SingleSend ==
    /\ pc = "send"
    /\ level_i <= Len(LevelOrder)
    /\ ~TooLarge(LevelFile, opts)
    /\ file' = Some(LevelFile)
    /\ sent' = Append(sent,
                 [content |-> DocsTxt(cog.val, LevelOrder[level_i]),
                  file |-> Some(LevelFile)])
    /\ level_i' = level_i + 1
    /\ UNCHANGED <<pc, opts, docs_by_level, rows, gidle, dvars, arc, cog, ivars, filename, calls>>

\* the level loop is exhausted and makedocs returns
SingleDone ==
    /\ pc = "send"
    /\ level_i > Len(LevelOrder)
    /\ pc' = "done"
    /\ UNCHANGED <<opts, gvars, mvars>>

\* makedocs is suspended in an await: in lines 186-188 before the test of
\* cog_name, on the executor's result, or in a ctx.send (the not-found
\* text, or a send of the level loop)
Suspended ==
    \/ pc \in {"start", "all_await", "single_await", "notfound_await"}
    \/ pc = "send" /\ level_i > 1

\* While makedocs is suspended the event loop runs other callbacks; one of
\* them unloads a cog.  The cog object makedocs and the worker hold stays
\* as it is.
EnvUnload ==
    /\ Suspended
    /\ callbacks < MaxCallbacks
    /\ \E n \in DictKeys(bot_cogs) : bot_cogs' = DictPop(bot_cogs, n)
    /\ callbacks' = callbacks + 1
    /\ UNCHANGED <<pc, opts, gvars, dk_usable, arc, sent, cog, ivars, level_i, filename, file, calls>>

\* ... or one of them loads a cog
EnvLoad ==
    /\ Suspended
    /\ callbacks < MaxCallbacks
    /\ DictUsed(bot_cogs) < MaxCogs
    /\ \E n \in LoadableCogs \ DictKeys(bot_cogs) :
         LET d == DictInsert(bot_cogs, dk_usable, Registry(n))
         IN  /\ bot_cogs' = d.entries
             /\ dk_usable' = d.usable
    /\ callbacks' = callbacks + 1
    /\ UNCHANGED <<pc, opts, gvars, arc, sent, cog, ivars, level_i, filename, file, calls>>

Next ==
    \/ AllOpen
    \/ AllIterFault
    \/ AllIterKeysFault
    \/ AllSkipIgnored
    \/ AllSubmit
    \/ AllResume
    \/ AllWrite
    \/ AllCsv
    \/ AllNoCsv
    \/ AllClose
    \/ SingleNotFound
    \/ SingleNotFoundReturn
    \/ SingleSubmit
    \/ SingleResume
    \/ SingleTooLarge
    \/ SingleSend
    \/ SingleDone
    \/ EnvUnload
    \/ EnvLoad

Spec == Init /\ [][Next]_vars

(* ------------------ properties of generate_readme ---------------------- *)

\* min_level <= l <= max_level for the call's band
InBand(l) ==
    /\ ~KeyErrors(opts)
    /\ privilege_map[opts.min_privilage_level] <= l
    /\ l <= privilege_map[opts.max_privilege_level]

\* a row's text without its first line, the synthesized label
DropLabelLine(text) ==
    LET nl == CHOOSE i \in 1..Len(text) :
                /\ CharAt(text, i) = "\n"
                /\ \A j \in 1..(i - 1) : CharAt(text, j) # "\n"
    IN  SubSeq(text, nl + 1, Len(text))

\* what the rows from the i-th on, produced by commands of tier l, add to a blob
RECURSIVE TierText(_, _)
TierText(l, i) ==
    IF i > Len(rows) THEN ""
    ELSE (IF emitted[i].level = l THEN DropLabelLine(rows[i][2]) \o "\n\n" ELSE "")
            \o TierText(l, i + 1)

\* the header every blob starts with once the header loop has run
HeaderNow ==
    IF pc \notin {"entry", "KeyError", "header"} /\ Truthy(opts.help) /\ Strip(opts.help.val) # "" /\ opts.include_help
    THEN CogHeader(opts.cog_name, Strip(opts.help.val))
    ELSE ""

\* C1: a command's rendered text is in a tier blob or in the row table only
\* if min <= tier(command) <= max, in both passes: every row comes from an
\* in-band command, and every blob is the header followed by exactly the
\* texts of the in-band commands of its tier, so a BOT_OWNER command under
\* band [NONE, MOD] adds nothing to any blob and has no row.
C1_BandFilter ==
    /\ Len(emitted) = Len(rows)
    /\ \A i \in 1..Len(emitted) : InBand(emitted[i].level)
    /\ \A l \in PrivilegeLevel : docs_by_level[l] = HeaderNow \o TierText(l, 1)
    /\ last.outcome = "emitted" => InBand(last.level)
    /\ last.outcome = "band" => ~InBand(last.level)

\* Scenario 1: band [NONE, MOD], a NONE command was rendered and then a
\* BOT_OWNER command was skipped by the band test.
C1_Witness ==
    /\ pc = "returned"
    /\ opts.min_privilage_level = "none"
    /\ opts.max_privilege_level = "mod"
    /\ Len(rows) = 1
    /\ emitted[1].level = NONE
    /\ last = [outcome |-> "band", level |-> BOT_OWNER]
    /\ docs_by_level[BOT_OWNER] = HeaderNow

\* C2: if a command foo is skipped because its render is null, every command
\* of the cog whose qualified name begins with foo's qualified name is absent
\* from every tier blob and from the row table.
C2_ExclusionPropagation ==
    \A foo \in nullSkipped :
        \A i \in 1..Len(emitted) : ~StartsWith(emitted[i].qualified_name, foo)

\* C3 as stated: the five keys are always there and every tier outside the
\* band has the empty string as its blob.
C3_OutOfBandEmpty ==
    /\ DOMAIN docs_by_level = PrivilegeLevel
    /\ \A l \in PrivilegeLevel : ~InBand(l) => docs_by_level[l] = ""

\* C3 amended: the five keys are always there and the blob of every tier
\* outside the band holds no command text: it is the empty string, or exactly
\* the cog header when the cog has help text and include_help is set.
C3_OutOfBandHeaderOnly ==
    /\ DOMAIN docs_by_level = PrivilegeLevel
    /\ \A l \in PrivilegeLevel : ~InBand(l) => docs_by_level[l] = HeaderNow

\* an assembly that rendered a command and returned, with the header in a
\* tier outside the band
C3_Witness ==
    /\ pc = "returned"
    /\ Len(rows) >= 1
    /\ \E l \in PrivilegeLevel : ~InBand(l) /\ docs_by_level[l] # ""
    /\ \E l \in PrivilegeLevel : InBand(l) /\ docs_by_level[l] # HeaderNow

\* every row is its label, a newline and a text found verbatim in the blob
\* of the tier of the command that produced the row
RowsInBlobs ==
    \A i \in 1..Len(rows) :
        /\ i <= Len(emitted)
        /\ rows[i][2] = rows[i][1] \o "\n" \o DropLabelLine(rows[i][2])
        /\ Contains(docs_by_level[emitted[i].level], DropLabelLine(rows[i][2]))

\* a step past the header appends a row exactly when it appends to a blob,
\* and then appends the row's text and a blank line to its command's tier
RowAndBlobTogether ==
    (pc \notin {"entry", "header"} /\ (rows' # rows \/ docs_by_level' # docs_by_level)) =>
        /\ Len(rows') = Len(rows) + 1
        /\ SubSeq(rows', 1, Len(rows)) = rows
        /\ Len(emitted') = Len(rows')
        /\ docs_by_level' =
             [docs_by_level EXCEPT ![emitted'[Len(rows')].level] =
                 @ \o DropLabelLine(rows'[Len(rows')][2]) \o "\n\n"]

\* C4: round trip: every row's text, its label line removed, occurs verbatim
\* in the blob of its command's tier, and no step appends a row without
\* appending the same text to that tier's blob, or the reverse.
C4_RoundTrip == []RowsInBlobs /\ [][RowAndBlobTogether]_vars

\* two rows of different tiers, one assembly finished
C4_Witness ==
    /\ pc = "returned"
    /\ Len(rows) = 2
    /\ emitted[1].level # emitted[2].level
    /\ docs_by_level[emitted[2].level] = HeaderNow \o DropLabelLine(rows[2][2]) \o "\n\n"

(* ---------------------- properties of makedocs ------------------------- *)

\* the files handed to ctx.send so far
SentFiles == {sent[i].file.val : i \in {j \in 1..Len(sent) : ~IsNone(sent[j].file)}}

\* the names of everything produced: archive entries and files sent
ArtifactNames ==
    {arc[i].name : i \in 1..Len(arc)} \cup {f.filename : f \in SentFiles}

EndsWith(s, p) == Len(p) <= Len(s) /\ SubSeq(s, Len(s) - Len(p) + 1, Len(s)) = p

\* C5: an artifact whose size exceeds the guild's file size limit is reported
\* as too large and is never handed to ctx.send.
C5_SizeCheck ==
    \A f \in SentFiles : ArtifactSize(f) <= opts.filesize_limit

\* C6: single-cog mode produces one text artifact <tier>/cog_<name>.rst for
\* each tier whose blob is non-empty and none for a tier whose blob is empty.
C6_NonEmptyTiersOnly ==
    (pc = "done" /\ opts.cog_name # "all" /\ calls = 1) =>
        \A l \in PrivilegeLevel :
            LET name == BufferName(l, cog.val)
                made == {i \in 1..Len(sent) :
                            /\ ~IsNone(sent[i].file)
                            /\ sent[i].file.val.filename = name}
            IN  IF docs_by_level[l] = ""
                THEN made = {}
                ELSE opts.filesize_limit >= FileObjectSize => Cardinality(made) = 1

\* C7: in "all" mode an invocation that finished building the archive has
\* handed the zip file to ctx.send by the time it ends.
C7_ArchiveDelivered ==
    (pc = "done" /\ opts.cog_name = "all") =>
        \E f \in SentFiles : f.filename = folder_name \o ".zip"

LoadedNames == DictKeys(bot_cogs)

\* C8: in "all" mode the archive has no entry naming an IGNORE cog, has
\* entries for every other loaded cog, and has an index document that lists
\* every processed cog name.
C8_ArchiveContents ==
    (pc = "done" /\ opts.cog_name = "all") =>
        /\ \A n \in LoadedNames \cap IGNORE :
              \A i \in 1..Len(arc) : ~Contains(arc[i].name, "cog_" \o n \o ".")
        /\ \A n \in LoadedNames \ IGNORE :
              \E i \in 1..Len(arc) : Contains(arc[i].name, "cog_" \o n \o ".rst")
        /\ \E i \in 1..Len(arc) :
              /\ StartsWith(arc[i].name, folder_name \o "/index.")
              /\ \A n \in LoadedNames \ IGNORE : Contains(arc[i].data, n)

\* C9: with csv_export every text artifact produced has a tabular artifact
\* of the same name with the suffix swapped, in both modes; without it no
\* tabular artifact is produced.
C9_CsvPerTextArtifact ==
    pc = "done" =>
        IF opts.csv_export
        THEN \A n \in ArtifactNames :
                EndsWith(n, ".rst") => Replace(n, ".rst", ".csv") \in ArtifactNames
        ELSE \A n \in ArtifactNames : ~EndsWith(n, ".csv")

\* the lookup of a cog name other than "all" returned None
NotFoundCase == opts.cog_name # "all" /\ pc # "start" /\ IsNone(cog)

\* C10: a cog name other than "all" that matches no loaded cog is answered
\* with the "not found" message; no assembly runs, no artifact is produced
\* or delivered, and no fault is raised.
C10_NotFound ==
    NotFoundCase =>
        /\ calls = 0
        /\ arc = <<>>
        /\ IsNone(file)
        /\ SentFiles = {}
        /\ pc \in {"notfound_await", "done"}
        /\ sent = <<[content |-> NotFoundTxt, file |-> None]>>

\* the invocation ended on a missing cog while other cogs were loaded
C10_Witness ==
    /\ NotFoundCase
    /\ pc = "done"
    /\ LoadedNames # {}
    /\ Len(sent) = 1

====
